---- MODULE Spec2Model ----
(***************************************************************************)
(* Model of src/result.rs: the parser error type of pom.                   *)
(*                                                                         *)
(* An ErrorMessage is a reference-counted closure producing a String; an   *)
(* Error is a five-variant tree whose Expect and Custom nodes own an inner *)
(* Error.  The operations are evaluate (force every message into an owned  *)
(* string), Clone, PartialEq, Display, the derived Debug and the           *)
(* std::error::Error implementation.                                       *)
(*                                                                         *)
(* Every operation that may run a closure returns, beside its value, the   *)
(* sequence of closures it invoked, in invocation order ("calls").         *)
(***************************************************************************)
EXTENDS Integers, Sequences, FiniteSets, TLC

VARIABLES
    a,          \* the error the caller holds
    b,          \* Option<Error>: a second error (a clone of a, or another error)
    resolved,   \* the slots ("a", "b") whose value was returned by Error::evaluate
    op,         \* the last operation
    arg,        \* Option<Error>: the value the last operation was applied to
    out,        \* the text the last operation wrote or returned ("" if none)
    eq,         \* the result of the last operation if a comparison (else FALSE)
    cause,      \* Option<Error>: the result of the last operation if source()
    log,        \* the closures the last operation invoked, in order
    calls,      \* how often each engine closure has been invoked so far
    passes,     \* format/evaluate operations so far on a value not yet resolved
    shown,      \* Display of a resolved value happened "never", "once" or "again"
    first       \* Option<String>: the text of the first Display of a resolved value

vars == <<a, b, resolved, op, arg, out, eq, cause, log, calls, passes, shown, first>>

(***************************************************************************)
(* Bounds of the model.                                                    *)
(***************************************************************************)
MaxDepth == 2       \* nesting of Expect/Custom wrappers above the innermost error
EqDepth == 1        \* nesting of the two errors compared in SpecEq
MaxPasses == 2      \* format/evaluate operations on values not yet resolved

Producers == {1, 2}         \* the message closures the parser engine supplies
Positions == {3, 99}        \* input offsets

\* The text the engine's closure number i produces (a pure closure).
ProducerText(i) ==
    CASE i = 1 -> "expected digit"
      [] i = 2 -> "'a' is not a digit"
      [] OTHER -> "message " \o ToString(i)

(***************************************************************************)
(* Option<T>                                                               *)
(***************************************************************************)
None == [some |-> FALSE]
Some(v) == [some |-> TRUE, value |-> v]

(***************************************************************************)
(* Closures (dyn Fn() -> String) and ErrorMessage                          *)
(***************************************************************************)
\* A closure supplied by the parser engine.
Producer(i) == [kind |-> "producer", id |-> i]

\* The closure `move || s.clone()` built by ErrorMessage::evaluate.
Owned(s) == [kind |-> "owned", s |-> s]

\* Running a closure: (self.0)()
Call(f) == IF f.kind = "producer" THEN ProducerText(f.id) ELSE f.s

\* ErrorMessage::new: the closure behind an Arc.
new(f) == [arc |-> f]

\* impl Display for ErrorMessage: write!(f, "{}", (self.0)())
ErrorMessage_Display_fmt(m) == [text |-> Call(m.arc), calls |-> <<m.arc>>]

\* impl Debug for ErrorMessage: write!(f, "{}", (self.0)())
ErrorMessage_Debug_fmt(m) == [text |-> Call(m.arc), calls |-> <<m.arc>>]

\* Variants of ErrorMessage::evaluate with a slip: the captured string left
\* empty; the message formatted twice; the original closure kept.
ErrorMessage_evaluate_empty(m) ==
    LET s == ErrorMessage_Display_fmt(m)
    IN  [value |-> new(Owned("")), calls |-> s.calls]

ErrorMessage_evaluate_twice(m) ==
    LET s == ErrorMessage_Display_fmt(m)
    IN  [value |-> new(Owned(s.text)), calls |-> s.calls \o s.calls]

ErrorMessage_evaluate_lazy(m) ==
    LET s == ErrorMessage_Display_fmt(m)
    IN  [value |-> m, calls |-> s.calls]

\* ErrorMessage::evaluate: let s = self.to_string(); ErrorMessage::new(move || s.clone())
ErrorMessage_evaluate(m) ==
    LET s == ErrorMessage_Display_fmt(m)
    IN  [value |-> new(Owned(s.text)), calls |-> s.calls]

(***************************************************************************)
(* enum Error                                                              *)
(***************************************************************************)
Incomplete == [tag |-> "Incomplete"]
Mismatch(m, p) == [tag |-> "Mismatch", message |-> m, position |-> p]
Conversion(m, p) == [tag |-> "Conversion", message |-> m, position |-> p]
Expect(m, p, i) == [tag |-> "Expect", message |-> m, position |-> p, inner |-> i]
Custom(m, p, i) == [tag |-> "Custom", message |-> m, position |-> p, inner |-> i]

\* Variant of Error::evaluate with a slip: the Custom arm builds `inner: None`.
RECURSIVE Error_evaluate_unwrapped(_)
Error_evaluate_unwrapped(self) ==
    CASE self.tag = "Incomplete" -> [value |-> Incomplete, calls |-> <<>>]
      [] self.tag = "Mismatch" ->
            LET m == ErrorMessage_evaluate(self.message)
            IN  [value |-> Mismatch(m.value, self.position), calls |-> m.calls]
      [] self.tag = "Conversion" ->
            LET m == ErrorMessage_evaluate(self.message)
            IN  [value |-> Conversion(m.value, self.position), calls |-> m.calls]
      [] self.tag = "Expect" ->
            LET m == ErrorMessage_evaluate(self.message)
                i == Error_evaluate_unwrapped(self.inner)
            IN  [value |-> Expect(m.value, self.position, i.value),
                 calls |-> m.calls \o i.calls]
      [] self.tag = "Custom" ->
            LET m == ErrorMessage_evaluate(self.message)
            IN  [value |-> Custom(m.value, self.position, None), calls |-> m.calls]

\* Error::evaluate.  Struct fields are evaluated in the order written:
\* the node's own message first, then the inner error.
RECURSIVE Error_evaluate(_)
Error_evaluate(self) ==
    CASE self.tag = "Incomplete" -> [value |-> Incomplete, calls |-> <<>>]
      [] self.tag = "Mismatch" ->
            LET m == ErrorMessage_evaluate(self.message)
            IN  [value |-> Mismatch(m.value, self.position), calls |-> m.calls]
      [] self.tag = "Conversion" ->
            LET m == ErrorMessage_evaluate(self.message)
            IN  [value |-> Conversion(m.value, self.position), calls |-> m.calls]
      [] self.tag = "Expect" ->
            LET m == ErrorMessage_evaluate(self.message)
                i == Error_evaluate(self.inner)
            IN  [value |-> Expect(m.value, self.position, i.value),
                 calls |-> m.calls \o i.calls]
      [] self.tag = "Custom" ->
            LET m == ErrorMessage_evaluate(self.message)
            IN  IF self.inner.some
                THEN LET i == Error_evaluate(self.inner.value)
                     IN  [value |-> Custom(m.value, self.position, Some(i.value)),
                          calls |-> m.calls \o i.calls]
                ELSE [value |-> Custom(m.value, self.position, None),
                      calls |-> m.calls]

\* Variant of eq: the comparison a derived PartialEq would make.
Error_eq_structural(self, other) == self = other

\* impl PartialEq<Error<'b>> for Error<'a>
Error_eq(self, other) ==
    CASE self.tag = "Incomplete" /\ other.tag = "Incomplete" -> TRUE
      [] self.tag = "Mismatch" /\ other.tag = "Mismatch" -> TRUE
      [] self.tag = "Conversion" /\ other.tag = "Conversion" -> TRUE
      [] self.tag = "Expect" /\ other.tag = "Expect" -> TRUE
      [] self.tag = "Custom" /\ other.tag = "Custom" -> TRUE
      [] OTHER -> FALSE

\* impl error::Error for Error: fn description(&self) -> &'static str
Error_description(self) == "Parse error"

\* Variant of source(): an override returning the inner error.
Error_source_inner(self) ==
    CASE self.tag = "Expect" -> Some(self.inner)
      [] self.tag = "Custom" -> self.inner
      [] OTHER -> None

\* impl error::Error for Error overrides neither source() nor cause(): the
\* trait's provided methods apply, and they return None.
Error_source(self) == None

\* Variant of Display with a slip: Custom with an inner error written with
\* the Expect template.
RECURSIVE Error_Display_fmt_colon(_)
Error_Display_fmt_colon(self) ==
    CASE self.tag = "Incomplete" -> [text |-> "Incomplete", calls |-> <<>>]
      [] self.tag = "Mismatch" ->
            LET m == ErrorMessage_Display_fmt(self.message)
            IN  [text |-> "Mismatch at " \o ToString(self.position) \o ": " \o m.text,
                 calls |-> m.calls]
      [] self.tag = "Conversion" ->
            LET m == ErrorMessage_Display_fmt(self.message)
            IN  [text |-> "Conversion failed at " \o ToString(self.position) \o ": " \o m.text,
                 calls |-> m.calls]
      [] self.tag = "Expect" ->
            LET m == ErrorMessage_Display_fmt(self.message)
                i == Error_Display_fmt_colon(self.inner)
            IN  [text |-> m.text \o " at " \o ToString(self.position) \o ": " \o i.text,
                 calls |-> m.calls \o i.calls]
      [] self.tag = "Custom" ->
            LET m == ErrorMessage_Display_fmt(self.message)
            IN  IF self.inner.some
                THEN LET i == Error_Display_fmt_colon(self.inner.value)
                     IN  [text |-> m.text \o " at " \o ToString(self.position)
                                   \o ": " \o i.text,
                          calls |-> m.calls \o i.calls]
                ELSE [text |-> m.text \o " at " \o ToString(self.position),
                      calls |-> m.calls]

\* impl Display for Error.  write! formats its arguments left to right.
RECURSIVE Error_Display_fmt(_)
Error_Display_fmt(self) ==
    CASE self.tag = "Incomplete" -> [text |-> "Incomplete", calls |-> <<>>]
      [] self.tag = "Mismatch" ->
            LET m == ErrorMessage_Display_fmt(self.message)
            IN  [text |-> "Mismatch at " \o ToString(self.position) \o ": " \o m.text,
                 calls |-> m.calls]
      [] self.tag = "Conversion" ->
            LET m == ErrorMessage_Display_fmt(self.message)
            IN  [text |-> "Conversion failed at " \o ToString(self.position) \o ": " \o m.text,
                 calls |-> m.calls]
      [] self.tag = "Expect" ->
            LET m == ErrorMessage_Display_fmt(self.message)
                i == Error_Display_fmt(self.inner)
            IN  [text |-> m.text \o " at " \o ToString(self.position) \o ": " \o i.text,
                 calls |-> m.calls \o i.calls]
      [] self.tag = "Custom" ->
            LET m == ErrorMessage_Display_fmt(self.message)
            IN  IF self.inner.some
                THEN LET i == Error_Display_fmt(self.inner.value)
                     IN  [text |-> m.text \o " at " \o ToString(self.position)
                                   \o ", (inner: " \o i.text \o ")",
                          calls |-> m.calls \o i.calls]
                ELSE [text |-> m.text \o " at " \o ToString(self.position),
                      calls |-> m.calls]

\* Variant of Debug: a hand-written impl that defers to Display.
Error_Debug_fmt_display(self) == Error_Display_fmt(self)

\* #[derive(Debug)] on Error: Formatter::debug_struct output, fields in
\* declaration order, each through its own Debug (ErrorMessage's prints the
\* produced text, usize prints decimal, Box is transparent, Option prints
\* Some(..) or None).
RECURSIVE Error_Debug_fmt(_)
Error_Debug_fmt(self) ==
    CASE self.tag = "Incomplete" -> [text |-> "Incomplete", calls |-> <<>>]
      [] self.tag \in {"Mismatch", "Conversion"} ->
            LET m == ErrorMessage_Debug_fmt(self.message)
            IN  [text |-> self.tag \o " { message: " \o m.text \o ", position: "
                          \o ToString(self.position) \o " }",
                 calls |-> m.calls]
      [] self.tag = "Expect" ->
            LET m == ErrorMessage_Debug_fmt(self.message)
                i == Error_Debug_fmt(self.inner)
            IN  [text |-> "Expect { message: " \o m.text \o ", position: "
                          \o ToString(self.position) \o ", inner: " \o i.text \o " }",
                 calls |-> m.calls \o i.calls]
      [] self.tag = "Custom" ->
            LET m == ErrorMessage_Debug_fmt(self.message)
            IN  IF self.inner.some
                THEN LET i == Error_Debug_fmt(self.inner.value)
                     IN  [text |-> "Custom { message: " \o m.text \o ", position: "
                                   \o ToString(self.position) \o ", inner: Some("
                                   \o i.text \o ") }",
                          calls |-> m.calls \o i.calls]
                ELSE [text |-> "Custom { message: " \o m.text \o ", position: "
                               \o ToString(self.position) \o ", inner: None }",
                      calls |-> m.calls]

\* #[derive(Clone)] on ErrorMessage: Arc::clone, a new handle to the same closure.
ErrorMessage_clone(m) == [arc |-> m.arc]

\* #[derive(Clone)] on Error: a new tree, every message cloned.
RECURSIVE Error_clone(_)
Error_clone(self) ==
    CASE self.tag = "Incomplete" -> Incomplete
      [] self.tag = "Mismatch" -> Mismatch(ErrorMessage_clone(self.message), self.position)
      [] self.tag = "Conversion" -> Conversion(ErrorMessage_clone(self.message), self.position)
      [] self.tag = "Expect" ->
            Expect(ErrorMessage_clone(self.message), self.position, Error_clone(self.inner))
      [] self.tag = "Custom" ->
            Custom(ErrorMessage_clone(self.message), self.position,
                   IF self.inner.some THEN Some(Error_clone(self.inner.value)) ELSE None)

(***************************************************************************)
(* The errors the parser engine constructs: bottom-up, every message a     *)
(* closure of the engine (the delayed form).                               *)
(***************************************************************************)
Leaves(Ms, Ps) ==
    {Incomplete}
    \cup {Mismatch(new(Producer(m)), p) : m \in Ms, p \in Ps}
    \cup {Conversion(new(Producer(m)), p) : m \in Ms, p \in Ps}
    \cup {Custom(new(Producer(m)), p, None) : m \in Ms, p \in Ps}

RECURSIVE TreesOver(_, _, _)
TreesOver(d, Ms, Ps) ==
    IF d = 0 THEN Leaves(Ms, Ps)
    ELSE LET S == TreesOver(d - 1, Ms, Ps)
         IN  Leaves(Ms, Ps)
             \cup {Expect(new(Producer(m)), p, i) : m \in Ms, p \in Ps, i \in S}
             \cup {Custom(new(Producer(m)), p, Some(i)) : m \in Ms, p \in Ps, i \in S}

Trees == TreesOver(MaxDepth, Producers, Positions)
ShareTrees == TreesOver(MaxDepth, Producers, {3})
EqTreesA == TreesOver(EqDepth, Producers, Positions)
EqTreesB == TreesOver(EqDepth, {1}, {3})

\* The count of invocations after the closures of l have run.
RECURSIVE Tally(_, _)
Tally(c, l) ==
    IF l = <<>> THEN c
    ELSE LET f == Head(l)
             c1 == IF f.kind = "producer" THEN [c EXCEPT ![f.id] = @ + 1] ELSE c
         IN  Tally(c1, Tail(l))

Start ==
    /\ resolved = {}
    /\ op = "new"
    /\ arg = None
    /\ out = ""
    /\ eq = FALSE
    /\ cause = None
    /\ log = <<>>
    /\ calls = [p \in Producers |-> 0]
    /\ passes = 0
    /\ shown = "never"
    /\ first = None

Init == a \in Trees /\ b = None /\ Start
InitShare == a \in ShareTrees /\ b = None /\ Start
InitEq == a \in EqTreesA /\ b \in {Some(t) : t \in EqTreesB} /\ Start

\* What every operation records: its name, its argument, the closures it
\* ran (counted), and what it returned.
Record(name, x, l, text, same, src) ==
    /\ op' = name
    /\ arg' = Some(x)
    /\ log' = l
    /\ calls' = Tally(calls, l)
    /\ out' = text
    /\ eq' = same
    /\ cause' = src

\* An operation that walks the messages of slot s: while the slot is not
\* resolved it is one more pass, allowed up to MaxPasses.
MayWalk(s) == s \in resolved \/ passes < MaxPasses
Walk(s) == passes' = IF s \in resolved THEN passes ELSE passes + 1

\* Display of slot s wrote text: the first text of a resolved value is kept.
Shown(s, text) ==
    /\ shown' = IF s \notin resolved THEN shown
                ELSE IF shown = "never" THEN "once" ELSE "again"
    /\ first' = IF s \in resolved /\ ~first.some THEN Some(text) ELSE first

\* let a = a.evaluate();
EvaluateA ==
    /\ MayWalk("a")
    /\ LET r == Error_evaluate(a)
       IN  a' = r.value /\ Record("evaluate_a", a, r.calls, "", FALSE, None)
    /\ resolved' = resolved \cup {"a"}
    /\ Walk("a")
    /\ UNCHANGED <<b, shown, first>>

\* Variant of `let b = b.evaluate();` in which forcing writes the forced
\* messages through to every holder of the error (shared forced state).
EvaluateB_shared ==
    /\ b.some
    /\ MayWalk("b")
    /\ LET r == Error_evaluate(b.value)
       IN  /\ b' = Some(r.value)
           /\ a' = r.value
           /\ Record("evaluate_b", b.value, r.calls, "", FALSE, None)
    /\ resolved' = resolved \cup {"b"}
    /\ Walk("b")
    /\ UNCHANGED <<shown, first>>

\* let b = b.evaluate();
EvaluateB ==
    /\ b.some
    /\ MayWalk("b")
    /\ LET r == Error_evaluate(b.value)
       IN  b' = Some(r.value) /\ Record("evaluate_b", b.value, r.calls, "", FALSE, None)
    /\ resolved' = resolved \cup {"b"}
    /\ Walk("b")
    /\ UNCHANGED <<a, shown, first>>

\* Variant of `format!("{}", a)` that memoizes: the forced messages replace
\* the closures of a.
DisplayA_memo ==
    /\ MayWalk("a")
    /\ LET r == Error_Display_fmt(a)
       IN  Record("display_a", a, r.calls, r.text, FALSE, None) /\ Shown("a", r.text)
    /\ Walk("a")
    /\ a' = Error_evaluate(a).value
    /\ UNCHANGED <<b, resolved>>

\* format!("{}", a)
DisplayA ==
    /\ MayWalk("a")
    /\ LET r == Error_Display_fmt(a)
       IN  Record("display_a", a, r.calls, r.text, FALSE, None) /\ Shown("a", r.text)
    /\ Walk("a")
    /\ UNCHANGED <<a, b, resolved>>

\* format!("{}", b)
DisplayB ==
    /\ b.some
    /\ MayWalk("b")
    /\ LET r == Error_Display_fmt(b.value)
       IN  Record("display_b", b.value, r.calls, r.text, FALSE, None) /\ Shown("b", r.text)
    /\ Walk("b")
    /\ UNCHANGED <<a, b, resolved>>

\* format!("{:?}", a)
DebugA ==
    /\ MayWalk("a")
    /\ LET r == Error_Debug_fmt(a)
       IN  Record("debug_a", a, r.calls, r.text, FALSE, None)
    /\ Walk("a")
    /\ UNCHANGED <<a, b, resolved, shown, first>>

\* a.description()
DescriptionA ==
    /\ Record("description_a", a, <<>>, Error_description(a), FALSE, None)
    /\ UNCHANGED <<a, b, resolved, passes, shown, first>>

\* a.source()
SourceA ==
    /\ Record("source_a", a, <<>>, "", FALSE, Error_source(a))
    /\ UNCHANGED <<a, b, resolved, passes, shown, first>>

\* let b = a.clone();
CloneA ==
    /\ b' = Some(Error_clone(a))
    /\ Record("clone_a", a, <<>>, "", FALSE, None)
    /\ resolved' = IF "a" \in resolved THEN resolved \cup {"b"} ELSE resolved \ {"b"}
    /\ UNCHANGED <<a, passes, shown, first>>

\* let b = b.clone();
CloneB ==
    /\ b.some
    /\ b' = Some(Error_clone(b.value))
    /\ Record("clone_b", b.value, <<>>, "", FALSE, None)
    /\ UNCHANGED <<a, resolved, passes, shown, first>>

\* a == b
Eq ==
    /\ b.some
    /\ Record("eq", a, <<>>, "", Error_eq(a, b.value), None)
    /\ UNCHANGED <<a, b, resolved, passes, shown, first>>

\* One error: displayed, resolved, displayed again.
Next == EvaluateA \/ DisplayA
Spec == Init /\ [][Next]_vars

\* One error, either phase: developer diagnostics and the error trait.
NextDiag == EvaluateA \/ DebugA \/ DescriptionA \/ SourceA
SpecDiag == Init /\ [][NextDiag]_vars

\* An error and its clone: the clone is resolved, both are formatted.
NextShare == CloneA \/ CloneB \/ EvaluateB \/ DisplayA \/ DisplayB \/ DebugA \/ Eq
SpecShare == InitShare /\ [][NextShare]_vars

\* Two errors, each in either phase, compared.
NextEq == EvaluateA \/ EvaluateB \/ Eq
SpecEq == InitEq /\ [][NextEq]_vars

(***************************************************************************)
(* Vocabulary of the properties                                            *)
(***************************************************************************)
\* The tree without its messages: variant, position and presence of an
\* inner error at every node.
RECURSIVE Shape(_)
Shape(e) ==
    CASE e.tag = "Incomplete" -> [tag |-> e.tag]
      [] e.tag \in {"Mismatch", "Conversion"} -> [tag |-> e.tag, position |-> e.position]
      [] e.tag = "Expect" ->
            [tag |-> e.tag, position |-> e.position, inner |-> Shape(e.inner)]
      [] e.tag = "Custom" ->
            [tag |-> e.tag, position |-> e.position,
             inner |-> IF e.inner.some THEN Some(Shape(e.inner.value)) ELSE None]

\* The closures of the message-carrying nodes, from the root inwards.
RECURSIVE MessagesOf(_)
MessagesOf(e) ==
    CASE e.tag = "Incomplete" -> <<>>
      [] e.tag \in {"Mismatch", "Conversion"} -> <<e.message.arc>>
      [] e.tag = "Expect" -> <<e.message.arc>> \o MessagesOf(e.inner)
      [] e.tag = "Custom" ->
            <<e.message.arc>> \o (IF e.inner.some THEN MessagesOf(e.inner.value) ELSE <<>>)

\* The number of Expect nodes of the tree.
RECURSIVE ExpectCount(_)
ExpectCount(e) ==
    CASE e.tag = "Expect" -> 1 + ExpectCount(e.inner)
      [] e.tag = "Custom" -> IF e.inner.some THEN ExpectCount(e.inner.value) ELSE 0
      [] OTHER -> 0

\* N Expect wrappers around an innermost error that is none: N, else 0.
RECURSIVE ExpectChain(_)
ExpectChain(e) == IF e.tag = "Expect" THEN 1 + ExpectChain(e.inner) ELSE 0

RECURSIVE Innermost(_)
Innermost(e) == IF e.tag = "Expect" THEN Innermost(e.inner) ELSE e

\* The number of nodes whose message is the engine's closure p.
Occ(p, e) ==
    LET ms == MessagesOf(e)
    IN  Cardinality({i \in 1..Len(ms) : ms[i] = Producer(p)})

Kinds(l) == {l[i].kind : i \in 1..Len(l)}
IsDelayed(e) == Kinds(MessagesOf(e)) \subseteq {"producer"}
IsOwned(e) == Kinds(MessagesOf(e)) \subseteq {"owned"}
NoProducer(l) == "producer" \notin Kinds(l)

\* The text of a message.
TextOf(m) == Call(m.arc)

\* The errors of the documented examples.
ExpectedDigit == Expect(new(Producer(1)), 3, Mismatch(new(Producer(2)), 3))

(***************************************************************************)
(* C1.  Resolving an error preserves its shape: the result of evaluate has *)
(* the same variant and the same position at every node and an inner error *)
(* exactly where the argument has one; every message of the result is an   *)
(* owned string.                                                           *)
(***************************************************************************)
EvaluatePreservesShape ==
    op = "evaluate_a" =>
        /\ Shape(a) = Shape(arg.value)
        /\ IsOwned(a)

\* A delayed Expect over Custom over Custom-without-inner has been resolved.
EvaluatePreservesShapeWitness ==
    /\ op = "evaluate_a"
    /\ IsDelayed(arg.value)
    /\ arg.value.tag = "Expect"
    /\ arg.value.inner.tag = "Custom"
    /\ arg.value.inner.inner.some
    /\ arg.value.inner.inner.value.tag = "Custom"
    /\ ~arg.value.inner.inner.value.inner.some
    /\ arg.value.position # arg.value.inner.position
    /\ a.inner.inner.some
    /\ ~a.inner.inner.value.inner.some

(***************************************************************************)
(* C2.  Display of a delayed error and Display of its resolved form write  *)
(* the same text, and so do every message of the error and its evaluated   *)
(* form.                                                                   *)
(***************************************************************************)
DisplayAgreesWithEvaluate ==
    op = "evaluate_a" =>
        /\ Error_Display_fmt(a).text = Error_Display_fmt(arg.value).text
        /\ LET ms == MessagesOf(arg.value)
           IN  \A i \in 1..Len(ms) :
                   ErrorMessage_Display_fmt(ErrorMessage_evaluate(new(ms[i])).value).text
                       = ErrorMessage_Display_fmt(new(ms[i])).text

\* A delayed two-level error with two different messages has been resolved.
DisplayAgreesWithEvaluateWitness ==
    /\ op = "evaluate_a"
    /\ arg.value = ExpectedDigit
    /\ a # arg.value
    /\ Error_Display_fmt(a).text = "expected digit at 3: Mismatch at 3: 'a' is not a digit"

(***************************************************************************)
(* C3.  Two errors, each delayed or resolved, compare equal exactly when   *)
(* their root variants are the same; messages, positions and inner errors  *)
(* play no part.                                                           *)
(***************************************************************************)
EqIsSameVariant ==
    op = "eq" => (eq <=> a.tag = b.value.tag)

\* A resolved Expect and a delayed Expect that differ in message, position
\* and inner variant have compared equal.
EqIsSameVariantWitness ==
    /\ op = "eq"
    /\ eq
    /\ resolved = {"a"}
    /\ a.tag = "Expect" /\ b.value.tag = "Expect"
    /\ a.position # b.value.position
    /\ TextOf(a.message) # TextOf(b.value.message)
    /\ a.inner.tag # b.value.inner.tag

(***************************************************************************)
(* C4.  Display writes the per-variant templates, the inner error          *)
(* formatted recursively.                                                  *)
(***************************************************************************)
RECURSIVE Template(_)
Template(e) ==
    LET at == " at " \o ToString(e.position)
    IN  CASE e.tag = "Incomplete" -> "Incomplete"
          [] e.tag = "Mismatch" -> "Mismatch" \o at \o ": " \o TextOf(e.message)
          [] e.tag = "Conversion" -> "Conversion failed" \o at \o ": " \o TextOf(e.message)
          [] e.tag = "Expect" -> TextOf(e.message) \o at \o ": " \o Template(e.inner)
          [] e.tag = "Custom" /\ e.inner.some ->
                TextOf(e.message) \o at \o ", (inner: " \o Template(e.inner.value) \o ")"
          [] e.tag = "Custom" /\ ~e.inner.some -> TextOf(e.message) \o at

DisplayFollowsTemplates ==
    op = "display_a" =>
        /\ out = Template(arg.value)
        /\ arg.value = ExpectedDigit =>
               out = "expected digit at 3: Mismatch at 3: 'a' is not a digit"
        /\ arg.value = Custom(new(Producer(1)), 99, Some(Incomplete)) =>
               out = "expected digit at 99, (inner: Incomplete)"
        /\ arg.value = Custom(new(Producer(1)), 99, None) => out = "expected digit at 99"

\* The documented example has been displayed.
DisplayFollowsTemplatesWitness ==
    /\ op = "display_a"
    /\ arg.value = ExpectedDigit
    /\ out = "expected digit at 3: Mismatch at 3: 'a' is not a digit"

(***************************************************************************)
(* C5.  As claimed: resolving N >= 1 Expect wrappers around an innermost   *)
(* error, every node with a closure of its own, forces exactly N message   *)
(* producers.                                                              *)
(***************************************************************************)
ResolveForcesExactlyN ==
    LET ms == MessagesOf(arg.value)
    IN  (op = "evaluate_a" /\ IsDelayed(arg.value) /\ ExpectChain(arg.value) >= 1
            /\ Innermost(arg.value).tag \in {"Incomplete", "Mismatch", "Conversion"}
            /\ Cardinality({ms[i] : i \in 1..Len(ms)}) = Len(ms))
        => Len(log) = ExpectChain(arg.value)

(***************************************************************************)
(* C5, amended.  Resolving a delayed error forces the message of every     *)
(* message-carrying node exactly once, from the root inwards: the Expect   *)
(* nodes and, beside them, every Mismatch, Conversion and Custom node.  A  *)
(* chain of N Expect wrappers forces N producers when it ends in           *)
(* Incomplete and N + 1 otherwise.                                         *)
(***************************************************************************)
ResolveForcesEachNodeOnce ==
    (op = "evaluate_a" /\ IsDelayed(arg.value)) =>
        /\ log = MessagesOf(arg.value)
        /\ LET e == arg.value
               n == ExpectChain(e)
           IN  Innermost(e).tag \in {"Incomplete", "Mismatch", "Conversion"} =>
                   Len(log) = IF Innermost(e).tag = "Incomplete" THEN n ELSE n + 1

\* Two Expect wrappers around a Mismatch have been resolved: three forced.
ResolveForcesEachNodeOnceWitness ==
    /\ op = "evaluate_a"
    /\ IsDelayed(arg.value)
    /\ ExpectChain(arg.value) = 2
    /\ Innermost(arg.value).tag = "Mismatch"
    /\ Len(log) = 3
    /\ calls[1] + calls[2] = 3

(***************************************************************************)
(* C6.  Resolving a clone leaves the error it was cloned from as it was:   *)
(* still the delayed error, with the same variants, positions and          *)
(* closures.  Each message is forced once, through the clone's handle      *)
(* alone, and the result holds owned strings.                              *)
(***************************************************************************)
ResolvingCloneLeavesOriginal ==
    (op = "evaluate_b" /\ IsDelayed(arg.value)) =>
        /\ a = arg.value
        /\ IsDelayed(a)
        /\ IsOwned(b.value)
        /\ log = MessagesOf(a)
        /\ \A p \in Producers : calls[p] = passes * Occ(p, a)

\* The clone of a three-message delayed error has been resolved, first pass.
ResolvingCloneLeavesOriginalWitness ==
    /\ op = "evaluate_b"
    /\ arg.value = a
    /\ Len(MessagesOf(a)) = 3
    /\ IsDelayed(a)
    /\ ~IsDelayed(b.value)
    /\ passes = 1
    /\ calls[1] + calls[2] = 3

(***************************************************************************)
(* C7.  As claimed: the Debug text of an error is its Display text.        *)
(***************************************************************************)
DebugEqualsDisplay ==
    op = "debug_a" => out = Error_Display_fmt(arg.value).text

(***************************************************************************)
(* C7, amended.  Debug is the derived structural format: it agrees with    *)
(* Display on Incomplete only; a message-carrying variant is written as    *)
(* its name and its fields in braces, e.g. Mismatch { message: m,          *)
(* position: p }.  Debug forces the same messages as Display, each once,   *)
(* and prints the same message text.                                       *)
(***************************************************************************)
DebugIsDerivedFormat ==
    op = "debug_a" =>
        LET e == arg.value
            fields == " { message: " \o TextOf(e.message) \o ", position: "
                          \o ToString(e.position)
        IN  /\ (out = Error_Display_fmt(e).text) <=> (e.tag = "Incomplete")
            /\ log = Error_Display_fmt(e).calls
            /\ e.tag = "Incomplete" => out = "Incomplete"
            /\ e.tag \in {"Mismatch", "Conversion"} => out = e.tag \o fields \o " }"
            /\ e.tag = "Expect" =>
                   out = "Expect" \o fields \o ", inner: "
                             \o Error_Debug_fmt(e.inner).text \o " }"
            /\ (e.tag = "Custom" /\ e.inner.some) =>
                   out = "Custom" \o fields \o ", inner: Some("
                             \o Error_Debug_fmt(e.inner.value).text \o ") }"
            /\ (e.tag = "Custom" /\ ~e.inner.some) =>
                   out = "Custom" \o fields \o ", inner: None }"

\* Debug of a Mismatch has been written.
DebugIsDerivedFormatWitness ==
    /\ op = "debug_a"
    /\ arg.value = Mismatch(new(Producer(2)), 3)
    /\ out = "Mismatch { message: 'a' is not a digit, position: 3 }"
    /\ Error_Display_fmt(arg.value).text = "Mismatch at 3: 'a' is not a digit"

(***************************************************************************)
(* C8.  As claimed: the trait-level cause of an Expect node, or of a       *)
(* Custom node with an inner error, is that inner error, and other nodes   *)
(* have no cause.                                                          *)
(***************************************************************************)
CauseIsInner ==
    op = "source_a" =>
        cause = CASE arg.value.tag = "Expect" -> Some(arg.value.inner)
                  [] arg.value.tag = "Custom" -> arg.value.inner
                  [] OTHER -> None

(***************************************************************************)
(* C8, amended.  The error trait is implemented with a description only:   *)
(* description() is "Parse error" for every variant, and the trait-level   *)
(* cause is None for every node, context wrappers included.                *)
(***************************************************************************)
DescriptionOnlyNoCause ==
    /\ op = "description_a" => out = "Parse error"
    /\ op = "source_a" => cause = None

\* source() has been asked of an Expect node, which has an inner error.
DescriptionOnlyNoCauseWitness ==
    /\ op = "source_a"
    /\ arg.value.tag = "Expect"
    /\ arg.value.inner.tag = "Mismatch"
    /\ cause = None

(***************************************************************************)
(* C9.  Formatting a delayed error neither memoizes nor mutates: every     *)
(* Display or Debug call leaves the error as it was, still delayed, and    *)
(* runs the closure of every message-carrying node once, so after k        *)
(* passes over the delayed error each closure has run k times for every    *)
(* node that carries it.                                                   *)
(***************************************************************************)
FormattingDoesNotMemoize ==
    /\ op \in {"display_a", "debug_a"} =>
           /\ a = arg.value
           /\ IsDelayed(a)
           /\ log = MessagesOf(a)
    /\ (op = "display_b" /\ "b" \notin resolved) =>
           /\ b.value = arg.value
           /\ b.value = a
           /\ log = MessagesOf(a)
    /\ \A p \in Producers : calls[p] = passes * Occ(p, a)

\* A three-message delayed error has been formatted twice, nothing else done.
FormattingDoesNotMemoizeWitness ==
    /\ op = "display_a"
    /\ passes = 2
    /\ b = None
    /\ a = arg.value
    /\ Len(MessagesOf(a)) = 3
    /\ calls[1] + calls[2] = 6

(***************************************************************************)
(* C10.  A resolved error is detached from the engine's closures: Display, *)
(* clone, comparison and resolving again never run one of them, every      *)
(* Display of the resolved error writes the text of its first Display, and *)
(* after one resolve and any number of such operations each closure has    *)
(* run once for every node that carried it.                                *)
(***************************************************************************)
ResolvedIsDetached ==
    /\ ("b" \in resolved /\ op \in {"display_b", "clone_b"}) => NoProducer(log)
    /\ (op = "evaluate_b" /\ ~IsDelayed(arg.value)) => NoProducer(log)
    /\ op = "eq" => log = <<>>
    /\ ("b" \in resolved /\ op \in {"display_b", "clone_b", "evaluate_b"}) =>
           /\ IsOwned(b.value)
           /\ Error_Display_fmt(b.value).text = Error_Display_fmt(a).text
    /\ ("b" \in resolved /\ op = "display_b") => (first.some /\ out = first.value)
    /\ ("b" \in resolved /\ passes = 1) => \A p \in Producers : calls[p] = Occ(p, a)

\* The resolved clone of a three-message error has been displayed more than
\* once; the one pass over the delayed error was the resolve.
ResolvedIsDetachedWitness ==
    /\ op = "display_b"
    /\ "b" \in resolved
    /\ shown = "again"
    /\ passes = 1
    /\ Len(MessagesOf(a)) = 3
    /\ calls[1] + calls[2] = 3
    /\ out = first.value

====
